---- MODULE Spec2Model ----
(***************************************************************************)
(* Model of tools/cli/cli.py: the database migration command line tool.    *)
(*                                                                         *)
(* One process (the operator's shell) runs the tool a bounded number of    *)
(* times against one database.  The database is modelled by its committed  *)
(* content `db` and by the content `tx` that the open session sees (its    *)
(* transaction): execute() changes tx, commit() copies tx to db,           *)
(* rollback() copies db to tx and close() abandons tx.                     *)
(***************************************************************************)
EXTENDS Integers, Sequences, FiniteSets

(* ------------------------------ bounds -------------------------------- *)
MaxTables == 2
MaxTypes == 2
MaxMenus == 2
MaxRestaurants == 1
MaxRuns == 2

TableNames == 1..MaxTables
TypeNames == 1..MaxTypes
MenuIds == 1..MaxMenus
Restaurants == 1..MaxRestaurants

(* --------------------------- program text ----------------------------- *)
\* main(): the choices of the positional argument
Commands == {"migrate", "reset", "status", "seed", "cleanup-orphaned-menus"}

\* seed(): the hardcoded records (username, user_type); the e-mail and the
\* password are written to the users row only and decide nothing
sample_users ==
    << [username |-> "customer1", user_type |-> "customer"],
       [username |-> "vendor1", user_type |-> "vendor"],
       [username |-> "driver1", user_type |-> "driver"],
       [username |-> "admin1", user_type |-> "admin"] >>

\* seed(): the profile table written for a user_type
ProfileTable(user_type) ==
    CASE user_type = "customer" -> "customers"
      [] user_type = "vendor" -> "vendors"
      [] user_type = "driver" -> "drivers"
      [] user_type = "admin" -> "admins"
      [] OTHER -> "none"

(* ------------------------- the SQL engine ----------------------------- *)
\* A database content.  tables/types: the names pg_tables and pg_type list
\* for the public schema; users: rows (id, username, user_type); prof: the
\* rows of the four profile tables in insertion order (duplicates are
\* distinct rows); menus: menu ids; rm: restaurant_menus rows
\* (restaurant, menu_id).
EmptyDb ==
    [tables |-> {}, types |-> {}, users |-> {}, prof |-> << >>,
     menus |-> {}, rm |-> {}]

\* rows live in tables: once no table is left, no row is left
NoRows(t) == [t EXCEPT !.users = {}, !.prof = << >>, !.menus = {}, !.rm = {}]

SetMax(S) == IF S = {} THEN 0 ELSE CHOOSE x \in S : \A y \in S : y <= x

\* SELECT tablename FROM pg_tables WHERE schemaname = 'public'
SelectTables(t) == t.tables

\* SELECT typname FROM pg_type WHERE ... typtype = 'e'
SelectTypes(t) == t.types

\* DROP TABLE IF EXISTS name CASCADE, for every name of S
DropTables(t, S) ==
    LET u == [t EXCEPT !.tables = @ \ S]
    IN  IF u.tables = {} /\ S # {} THEN NoRows(u) ELSE u

\* DROP TYPE IF EXISTS name CASCADE, for every name of S
DropTypes(t, S) == [t EXCEPT !.types = @ \ S]

\* the id RETURNING yields: 0 stands for "no row" (the conflict was skipped)
InsertedId(t, username) ==
    IF \E u \in t.users : u.username = username
    THEN 0
    ELSE SetMax({u.id : u \in t.users}) + 1

\* INSERT INTO users ... ON CONFLICT (username) DO NOTHING
InsertUser(t, rec) ==
    IF InsertedId(t, rec.username) = 0
    THEN t
    ELSE [t EXCEPT !.users = @ \cup
             {[id |-> InsertedId(t, rec.username), username |-> rec.username,
               user_type |-> rec.user_type]}]

\* INSERT INTO customers | vendors | drivers | admins (user_id, ...)
InsertProfile(t, tbl, user_id) ==
    [t EXCEPT !.prof = Append(@, [tbl |-> tbl, user_id |-> user_id])]

\* ... FROM menus m LEFT JOIN restaurant_menus rm ON m.id = rm.menu_id
\*     WHERE rm.menu_id IS NULL
SelectOrphans(t) == {m \in t.menus : \A r \in Restaurants : <<r, m>> \notin t.rm}

(* --------------- the SQL files (not part of the tool) ----------------- *)
\* drop_all.sql, "Dropping all existing tables and objects"
DropAllFile(t) == EmptyDb

\* schema.sql, "Creating tables and objects from schema"
SchemaFile(t) == [t EXCEPT !.tables = TableNames, !.types = TypeNames]

(* ------------------------------ strings ------------------------------- *)
\* str.lower() on the letters the answers below are made of
LowerChar(c) ==
    CASE c = "Y" -> "y"
      [] c = "E" -> "e"
      [] c = "S" -> "s"
      [] c = "N" -> "n"
      [] c = "O" -> "o"
      [] OTHER -> c

Lower(s) == [k \in DOMAIN s |-> LowerChar(s[k])]

Yes == <<"y", "e", "s">>

\* what the operator may type at the confirmation prompt
Answers ==
    { Yes, <<"Y", "E", "S">>, <<"Y", "e", "s">>, <<"y", "E", "s">>,
      <<"n", "o">>, <<"N", "O">>, << >>, <<"y">>, <<" ", "y", "e", "s">>,
      <<"y", "e", "s", " ">> }

(* ------------------------------- state -------------------------------- *)
VARIABLES
    pc,              \* where the process is
    args,            \* argparse result: command, execute
    db_url,          \* self.db_url: whether a connection string is set
    db,              \* committed database content
    tx,              \* content seen by the open session
    conn,            \* self.conn: "none", "open", "closed"
    cursor,          \* self.cursor: "none", "open", "closed"
    result,          \* how the command ended: "none", "true", "false",
                     \* "raise" (an Exception left it), "interrupt"
    exitCode,        \* process exit status, -1 while running
    tables,          \* reset(): the fetched table names
    orphaned_menus,  \* cleanup_orphaned_menus(): the fetched orphans
    idx,             \* seed(): position in sample_users
    response,        \* cleanup_orphaned_menus(): what input() gave
    files,           \* migrate(): what os.path.exists answered
    hist,            \* this run's record: calls made, steps' results, the
                     \* content the drop_all.sql batch produced
    pre,             \* db when this run started
    lastRun,         \* the previous run: command and result
    runs             \* runs started so far

vars ==
    << pc, args, db_url, db, tx, conn, cursor, result, exitCode, tables,
       orphaned_menus, idx, response, files, hist, pre, lastRun, runs >>

NoHist ==
    [nConnect |-> 0, connected |-> FALSE, nDisconnect |-> 0, nCommit |-> 0,
     nDelete |-> 0, raised |-> FALSE, parsed |-> FALSE, dispatched |-> FALSE,
     dropRet |-> "none", schemaRet |-> "none", afterDrop |-> EmptyDb,
     cancelled |-> FALSE]

NoArgs == [command |-> "none", execute |-> FALSE]
NoResponse == [kind |-> "none", text |-> << >>]
NoFiles == [schema |-> FALSE, drop |-> FALSE]

(* --------------------------- initial states --------------------------- *)
\* users and profile rows before the first run: each seed username is
\* absent, present without a profile row, or present with its profile row
RECURSIVE UsersOf(_, _), ProfOf(_, _)
UsersOf(f, k) ==
    IF k = 0 THEN {}
    ELSE UsersOf(f, k - 1) \cup
         (IF f[k] = "absent" THEN {}
          ELSE {[id |-> k, username |-> sample_users[k].username,
                 user_type |-> sample_users[k].user_type]})

ProfOf(f, k) ==
    IF k = 0 THEN << >>
    ELSE ProfOf(f, k - 1) \o
         (IF f[k] = "profiled"
          THEN << [tbl |-> ProfileTable(sample_users[k].user_type), user_id |-> k] >>
          ELSE << >>)

FullSchema == [EmptyDb EXCEPT !.tables = TableNames, !.types = TypeNames]

InitialDbs ==
    { [EmptyDb EXCEPT !.tables = T, !.types = E] :
        T \in SUBSET TableNames, E \in SUBSET TypeNames }
    \cup
    { [FullSchema EXCEPT !.users = UsersOf(f, Len(sample_users)),
                         !.prof = ProfOf(f, Len(sample_users))] :
        f \in [1..Len(sample_users) -> {"absent", "bare", "profiled"}] }
    \cup
    { [FullSchema EXCEPT !.menus = M, !.rm = R] :
        M \in SUBSET MenuIds, R \in SUBSET (Restaurants \X MenuIds) }

Init ==
    /\ db \in {d \in InitialDbs : \A p \in d.rm : p[2] \in d.menus}
    /\ pre = db
    /\ tx = db
    /\ pc = "shell"
    /\ args = NoArgs
    /\ db_url = FALSE
    /\ conn = "none"
    /\ cursor = "none"
    /\ result = "none"
    /\ exitCode = -1
    /\ tables = {}
    /\ orphaned_menus = {}
    /\ idx = 1
    /\ response = NoResponse
    /\ files = NoFiles
    /\ hist = NoHist
    /\ lastRun = [command |-> "none", result |-> "none"]
    /\ runs = 1

(* ------------------------------- main --------------------------------- *)
\* parser.parse_args(): a command outside the choices ends the process
\* with argparse's status 2, before the try block.  --execute is read by
\* cleanup-orphaned-menus alone and is drawn for it alone.
ParseArgs ==
    /\ pc = "shell"
    /\ \E c \in Commands \cup {"bogus"}, e \in BOOLEAN :
        /\ e => c = "cleanup-orphaned-menus"
        /\ args' = [command |-> c, execute |-> e]
        /\ IF c \in Commands
           THEN /\ pc' = "construct"
                /\ exitCode' = exitCode
                /\ hist' = [hist EXCEPT !.parsed = TRUE]
           ELSE /\ pc' = "exited"
                /\ exitCode' = 2
                /\ hist' = hist
    /\ UNCHANGED << db_url, db, tx, conn, cursor, result, tables, orphaned_menus,
                    idx, response, files, pre, lastRun, runs >>

\* DatabaseCLI.__init__ and the dispatch on args.command: without --db-url
\* and without DATABASE_URL the ValueError goes to main's except
Construct ==
    /\ pc = "construct"
    /\ \E url_arg \in BOOLEAN, url_env \in BOOLEAN :
        /\ db_url' = (url_arg \/ url_env)
        /\ IF url_arg \/ url_env
           THEN /\ pc' = IF args.command = "migrate" THEN "migrate" ELSE "connect"
                /\ result' = result
                /\ hist' = [hist EXCEPT !.dispatched = TRUE]
           ELSE /\ pc' = "main_exit"
                /\ result' = "raise"
                /\ hist' = hist
    /\ UNCHANGED << args, db, tx, conn, cursor, exitCode, tables, orphaned_menus,
                    idx, response, files, pre, lastRun, runs >>

\* where each command continues once connect() returned True (the choices
\* of the parser leave the final else of the dispatch without a case)
BodyOf(command) ==
    CASE command = "migrate" -> "migrate_drop"
      [] command = "reset" -> "reset_select"
      [] command = "status" -> "status"
      [] command = "seed" -> "seed"
      [] command = "cleanup-orphaned-menus" -> "cleanup_select"

\* "if not self.connect(): return False" stands before the try block of
\* every command: a failed connect() returns to main past the finally
ConnectReturnInsideTry(outcome, command) ==
    IF outcome = "ok" THEN BodyOf(command) ELSE "finally"

ConnectReturn(outcome, command) ==
    IF outcome = "ok" THEN BodyOf(command) ELSE "main_exit"

\* connect() as every command calls it.  outcome "no_cursor":
\* psycopg2.connect succeeded and conn.cursor() raised, so self.conn stays
\* open and connect() returns False.
Connect ==
    /\ pc = "connect"
    /\ \E outcome \in {"ok", "no_conn", "no_cursor"} :
        /\ conn' = IF outcome = "no_conn" THEN conn ELSE "open"
        /\ cursor' = IF outcome = "ok" THEN "open" ELSE cursor
        /\ tx' = db
        /\ hist' = [hist EXCEPT !.nConnect = @ + 1, !.connected = (outcome = "ok")]
        /\ pc' = ConnectReturn(outcome, args.command)
        /\ result' = IF outcome = "ok" THEN result ELSE "false"
    /\ UNCHANGED << args, db_url, db, exitCode, tables, orphaned_menus, idx, response,
                    files, pre, lastRun, runs >>

\* disconnect(), as the finally block of every command calls it
Disconnect ==
    /\ pc = "finally"
    /\ cursor' = IF cursor = "open" THEN "closed" ELSE cursor
    /\ conn' = IF conn = "open" THEN "closed" ELSE conn
    /\ tx' = db
    /\ hist' = [hist EXCEPT !.nDisconnect = @ + 1]
    /\ pc' = "main_exit"
    /\ UNCHANGED << args, db_url, db, result, exitCode, tables, orphaned_menus, idx,
                    response, files, pre, lastRun, runs >>

ExitCodesExceptSilent(r) ==
    CASE r = "true" -> {0}
      [] r = "false" -> {1}
      [] r = "raise" -> {0}
      [] r = "interrupt" -> {1, 130}

\* sys.exit(0 if success else 1); except Exception: sys.exit(1).  A
\* KeyboardInterrupt is no Exception: the interpreter ends the process, with
\* status 130 (killed by SIGINT) or 1 depending on its version.
ExitCodes(r) ==
    CASE r = "true" -> {0}
      [] r = "false" -> {1}
      [] r = "raise" -> {1}
      [] r = "interrupt" -> {1, 130}

MainExit ==
    /\ pc = "main_exit"
    /\ exitCode' \in ExitCodes(result)
    /\ pc' = "exited"
    /\ UNCHANGED << args, db_url, db, tx, conn, cursor, result, tables, orphaned_menus,
                    idx, response, files, hist, pre, lastRun, runs >>

\* the operator runs the tool again: a new process against the same database
NextRun ==
    /\ pc = "exited"
    /\ runs < MaxRuns
    /\ runs' = runs + 1
    /\ lastRun' = [command |-> args.command, result |-> result]
    /\ pre' = db
    /\ tx' = db
    /\ pc' = "shell"
    /\ args' = NoArgs
    /\ db_url' = FALSE
    /\ conn' = "none"
    /\ cursor' = "none"
    /\ result' = "none"
    /\ exitCode' = -1
    /\ tables' = {}
    /\ orphaned_menus' = {}
    /\ idx' = 1
    /\ response' = NoResponse
    /\ files' = NoFiles
    /\ hist' = NoHist
    /\ UNCHANGED db

(* --------------------------- execute_sql_file ------------------------- *)
\* execute_sql_file(filepath) on a file whose batch turns the session's
\* content into `after`.  oc is what the engine does: "ok"; execute()
\* raises; commit() raises; or execute() raises and then rollback() raises
\* too, which leaves the function as an exception.
SqlFileOutcomes == {"ok", "execute_raises", "commit_raises", "rollback_raises"}

ExecuteSqlFileNoCommit(after, oc) ==
    CASE oc = "ok" ->
            [tx |-> after, db |-> db, ret |-> "true", commits |-> 0]
      [] oc \in {"execute_raises", "commit_raises"} ->
            [tx |-> db, db |-> db, ret |-> "false", commits |-> 0]
      [] oc = "rollback_raises" ->
            [tx |-> tx, db |-> db, ret |-> "raise", commits |-> 0]

ExecuteSqlFile(after, oc) ==
    CASE oc = "ok" ->
            [tx |-> after, db |-> after, ret |-> "true", commits |-> 1]
      [] oc \in {"execute_raises", "commit_raises"} ->
            [tx |-> db, db |-> db, ret |-> "false", commits |-> 0]
      [] oc = "rollback_raises" ->
            [tx |-> tx, db |-> db, ret |-> "raise", commits |-> 0]

(* ------------------------------ migrate ------------------------------- *)
\* migrate(), up to the connect() call: the schema file must exist
MigrateResolve ==
    /\ pc = "migrate"
    /\ \E exists \in BOOLEAN :
        /\ files' = [files EXCEPT !.schema = exists]
        /\ IF exists
           THEN pc' = "connect" /\ result' = result
           ELSE pc' = "main_exit" /\ result' = "false"
    /\ UNCHANGED << args, db_url, db, tx, conn, cursor, exitCode, tables, orphaned_menus,
                    idx, response, hist, pre, lastRun, runs >>

\* migrate(), step 1: drop_all.sql, when it exists
MigrateDropStep ==
    /\ pc = "migrate_drop"
    /\ \E exists \in BOOLEAN, oc \in SqlFileOutcomes :
        LET r == ExecuteSqlFile(DropAllFile(tx), oc)
        IN  /\ files' = [files EXCEPT !.drop = exists]
            /\ IF exists
               THEN /\ tx' = r.tx
                    /\ db' = r.db
                    /\ hist' = [hist EXCEPT !.dropRet = r.ret,
                                            !.afterDrop = DropAllFile(tx),
                                            !.nCommit = @ + r.commits,
                                            !.raised = (r.ret # "true")]
                    /\ IF r.ret = "true"
                       THEN pc' = "migrate_schema" /\ result' = result
                       ELSE pc' = "finally" /\ result' = r.ret
               ELSE /\ oc = "ok"
                    /\ pc' = "migrate_schema"
                    /\ hist' = [hist EXCEPT !.dropRet = "skipped"]
                    /\ UNCHANGED << tx, db, result >>
    /\ UNCHANGED << args, db_url, conn, cursor, exitCode, tables, orphaned_menus, idx,
                    response, pre, lastRun, runs >>

\* migrate(), step 2: the schema file; its result is migrate's result
MigrateSchemaStep ==
    /\ pc = "migrate_schema"
    /\ \E oc \in SqlFileOutcomes :
        LET r == ExecuteSqlFile(SchemaFile(tx), oc)
        IN  /\ tx' = r.tx
            /\ db' = r.db
            /\ hist' = [hist EXCEPT !.schemaRet = r.ret,
                                    !.nCommit = @ + r.commits,
                                    !.raised = (r.ret # "true")]
            /\ result' = r.ret
            /\ pc' = "finally"
    /\ UNCHANGED << args, db_url, conn, cursor, exitCode, tables, orphaned_menus, idx,
                    response, files, pre, lastRun, runs >>

(* ---------------------- the except Exception blocks ------------------- *)
\* reset, seed, cleanup: self.conn.rollback(), return False (a rollback
\* that raises leaves the command as an exception); status: return False
ExceptHandler ==
    /\ pc = "except"
    /\ \E rollback_ok \in BOOLEAN :
        /\ args.command = "status" => rollback_ok
        /\ tx' = IF args.command # "status" /\ rollback_ok THEN db ELSE tx
        /\ result' = IF rollback_ok THEN "false" ELSE "raise"
    /\ pc' = "finally"
    /\ UNCHANGED << args, db_url, db, conn, cursor, exitCode, tables, orphaned_menus,
                    idx, response, files, hist, pre, lastRun, runs >>

(* ------------------------------- reset -------------------------------- *)
\* reset(): list the tables; "No tables to drop" returns True at once
ResetSelect ==
    /\ pc = "reset_select"
    /\ \E ok \in BOOLEAN :
        IF ok
        THEN /\ tables' = SelectTables(tx)
             /\ hist' = hist
             /\ IF SelectTables(tx) = {}
                THEN pc' = "finally" /\ result' = "true"
                ELSE pc' = "reset_drop" /\ result' = result
        ELSE /\ pc' = "except"
             /\ hist' = [hist EXCEPT !.raised = TRUE]
             /\ UNCHANGED << tables, result >>
    /\ UNCHANGED << args, db_url, db, tx, conn, cursor, exitCode, orphaned_menus, idx,
                    response, files, pre, lastRun, runs >>

\* reset(): the DROP TABLE loop; `done` are the tables dropped before a
\* statement raised (all of them when none did)
ResetDropTables ==
    /\ pc = "reset_drop"
    /\ \E done \in SUBSET tables :
        /\ tx' = DropTables(tx, done)
        /\ pc' = IF done = tables THEN "reset_types" ELSE "except"
        /\ hist' = [hist EXCEPT !.raised = (done # tables)]
    /\ UNCHANGED << args, db_url, db, conn, cursor, result, exitCode, tables,
                    orphaned_menus, idx, response, files, pre, lastRun, runs >>

\* reset(): list the enum types and the DROP TYPE loop
ResetDropTypes ==
    /\ pc = "reset_types"
    /\ \E ok \in BOOLEAN, done \in SUBSET SelectTypes(tx) :
        /\ ~ok => done = {}
        /\ tx' = DropTypes(tx, done)
        /\ pc' = IF ok /\ done = SelectTypes(tx) THEN "reset_commit" ELSE "except"
        /\ hist' = [hist EXCEPT !.raised = ~(ok /\ done = SelectTypes(tx))]
    /\ UNCHANGED << args, db_url, db, conn, cursor, result, exitCode, tables,
                    orphaned_menus, idx, response, files, pre, lastRun, runs >>

\* reset(): self.conn.commit(), return True
ResetCommit ==
    /\ pc = "reset_commit"
    /\ \E ok \in BOOLEAN :
        IF ok
        THEN /\ db' = tx
             /\ hist' = [hist EXCEPT !.nCommit = @ + 1]
             /\ result' = "true"
             /\ pc' = "finally"
        ELSE /\ hist' = [hist EXCEPT !.raised = TRUE]
             /\ pc' = "except"
             /\ UNCHANGED << db, result >>
    /\ UNCHANGED << args, db_url, tx, conn, cursor, exitCode, tables, orphaned_menus,
                    idx, response, files, pre, lastRun, runs >>

(* ------------------------------- status ------------------------------- *)
\* status(): version, tables with their row counts, enum types; read only
StatusBody ==
    /\ pc = "status"
    /\ \E ok \in BOOLEAN :
        IF ok
        THEN pc' = "finally" /\ result' = "true" /\ hist' = hist
        ELSE pc' = "except" /\ result' = result
             /\ hist' = [hist EXCEPT !.raised = TRUE]
    /\ UNCHANGED << args, db_url, db, tx, conn, cursor, exitCode, tables, orphaned_menus,
                    idx, response, files, pre, lastRun, runs >>

(* -------------------------------- seed -------------------------------- *)
SeedOneProfileAlways(t, rec) ==
    LET ids == {u.id : u \in {v \in InsertUser(t, rec).users :
                                 v.username = rec.username}}
    IN  InsertProfile(InsertUser(t, rec), ProfileTable(rec.user_type),
                      SetMax(ids))

\* one pass of seed()'s loop body when no statement raises: the users
\* insert, and the profile insert only "if result"
SeedOne(t, rec) ==
    IF InsertedId(t, rec.username) # 0
    THEN InsertProfile(InsertUser(t, rec), ProfileTable(rec.user_type),
                       InsertedId(t, rec.username))
    ELSE t

SeedRecordCommitEach ==
    /\ pc = "seed"
    /\ idx <= Len(sample_users)
    /\ \E oc \in {"ok", "users_insert_raises", "profile_insert_raises"} :
        LET rec == sample_users[idx]
        IN  /\ oc = "ok" => tx.tables # {}
            /\ oc = "profile_insert_raises" =>
                   tx.tables # {} /\ InsertedId(tx, rec.username) # 0
            /\ tx' = CASE oc = "ok" -> SeedOne(tx, rec)
                       [] oc = "users_insert_raises" -> tx
                       [] oc = "profile_insert_raises" -> InsertUser(tx, rec)
            /\ db' = IF oc = "ok" THEN SeedOne(tx, rec) ELSE db
            /\ idx' = IF oc = "ok" THEN idx + 1 ELSE idx
            /\ pc' = IF oc = "ok" THEN "seed" ELSE "except"
            /\ hist' = [hist EXCEPT !.raised = (oc # "ok")]
    /\ UNCHANGED << args, db_url, conn, cursor, result, exitCode, tables,
                    orphaned_menus, response, files, pre, lastRun, runs >>

\* seed(): the loop body for sample_users[idx].  A statement on a database
\* without tables raises.
SeedRecord ==
    /\ pc = "seed"
    /\ idx <= Len(sample_users)
    /\ \E oc \in {"ok", "users_insert_raises", "profile_insert_raises"} :
        LET rec == sample_users[idx]
        IN  /\ oc = "ok" => tx.tables # {}
            /\ oc = "profile_insert_raises" =>
                   tx.tables # {} /\ InsertedId(tx, rec.username) # 0
            /\ tx' = CASE oc = "ok" -> SeedOne(tx, rec)
                       [] oc = "users_insert_raises" -> tx
                       [] oc = "profile_insert_raises" -> InsertUser(tx, rec)
            /\ idx' = IF oc = "ok" THEN idx + 1 ELSE idx
            /\ pc' = IF oc = "ok" THEN "seed" ELSE "except"
            /\ hist' = [hist EXCEPT !.raised = (oc # "ok")]
    /\ UNCHANGED << args, db_url, db, conn, cursor, result, exitCode, tables,
                    orphaned_menus, response, files, pre, lastRun, runs >>

\* seed(): the commit after the loop, return True
SeedCommit ==
    /\ pc = "seed"
    /\ idx > Len(sample_users)
    /\ \E ok \in BOOLEAN :
        IF ok
        THEN /\ db' = tx
             /\ hist' = [hist EXCEPT !.nCommit = @ + 1]
             /\ result' = "true"
             /\ pc' = "finally"
        ELSE /\ hist' = [hist EXCEPT !.raised = TRUE]
             /\ pc' = "except"
             /\ UNCHANGED << db, result >>
    /\ UNCHANGED << args, db_url, tx, conn, cursor, exitCode, tables, orphaned_menus,
                    idx, response, files, pre, lastRun, runs >>

(* ----------------------- cleanup_orphaned_menus ----------------------- *)
DeleteAllMenus(t) == [t EXCEPT !.menus = {}]

\* DELETE FROM menus WHERE id IN (the orphan query)
DeleteOrphans(t) == [t EXCEPT !.menus = @ \ SelectOrphans(t)]

ConfirmsExactly(text) == text = Yes

\* the test on the answer: response.lower() != 'yes' cancels
Confirms(text) == Lower(text) = Yes

\* main(): cleanup_orphaned_menus(dry_run=not args.execute)
DryRunIgnored == FALSE

DryRun == ~args.execute

\* cleanup_orphaned_menus(): the orphan query; none found returns True
CleanupSelect ==
    /\ pc = "cleanup_select"
    /\ \E ok \in BOOLEAN :
        /\ ok => tx.tables # {}
        /\ IF ok
           THEN /\ orphaned_menus' = SelectOrphans(tx)
                /\ hist' = hist
                /\ IF SelectOrphans(tx) = {}
                   THEN pc' = "finally" /\ result' = "true"
                   ELSE pc' = "cleanup_gate" /\ result' = result
           ELSE /\ pc' = "except"
                /\ hist' = [hist EXCEPT !.raised = TRUE]
                /\ UNCHANGED << orphaned_menus, result >>
    /\ UNCHANGED << args, db_url, db, tx, conn, cursor, exitCode, tables, idx, response,
                    files, pre, lastRun, runs >>

\* cleanup_orphaned_menus(): the listing, the dry-run return and the
\* confirmation.  input() gives a line, raises EOFError, or is interrupted.
CleanupGate ==
    /\ pc = "cleanup_gate"
    /\ IF DryRun
       THEN /\ pc' = "finally"
            /\ result' = "true"
            /\ UNCHANGED << response, hist >>
       ELSE \E r \in [kind : {"line"}, text : Answers]
                     \cup {[kind |-> "eof", text |-> << >>],
                           [kind |-> "interrupt", text |-> << >>]} :
              /\ response' = r
              /\ CASE r.kind = "line" /\ Confirms(r.text) ->
                        pc' = "cleanup_delete" /\ UNCHANGED << result, hist >>
                   [] r.kind = "line" /\ ~Confirms(r.text) ->
                        /\ pc' = "finally"
                        /\ result' = "false"
                        /\ hist' = [hist EXCEPT !.cancelled = TRUE]
                   [] r.kind = "eof" ->
                        /\ pc' = "except"
                        /\ hist' = [hist EXCEPT !.raised = TRUE]
                        /\ UNCHANGED result
                   [] r.kind = "interrupt" ->
                        /\ pc' = "finally"
                        /\ result' = "interrupt"
                        /\ UNCHANGED hist
    /\ UNCHANGED << args, db_url, db, tx, conn, cursor, exitCode, tables, orphaned_menus,
                    idx, files, pre, lastRun, runs >>

\* cleanup_orphaned_menus(): the DELETE and its commit
CleanupDelete ==
    /\ pc = "cleanup_delete"
    /\ \E oc \in {"ok", "delete_raises", "commit_raises"} :
        /\ tx' = IF oc = "delete_raises" THEN tx ELSE DeleteOrphans(tx)
        /\ db' = IF oc = "ok" THEN DeleteOrphans(tx) ELSE db
        /\ hist' = [hist EXCEPT !.nDelete = @ + 1,
                                !.nCommit = IF oc = "ok" THEN @ + 1 ELSE @,
                                !.raised = (oc # "ok")]
        /\ pc' = IF oc = "ok" THEN "cleanup_verify" ELSE "except"
    /\ UNCHANGED << args, db_url, conn, cursor, result, exitCode, tables, orphaned_menus,
                    idx, response, files, pre, lastRun, runs >>

\* cleanup_orphaned_menus(): the count of the orphans that remain
CleanupVerify ==
    /\ pc = "cleanup_verify"
    /\ \E ok \in BOOLEAN :
        /\ pc' = IF ok THEN "cleanup_stats" ELSE "except"
        /\ hist' = [hist EXCEPT !.raised = ~ok]
    /\ UNCHANGED << args, db_url, db, tx, conn, cursor, result, exitCode, tables,
                    orphaned_menus, idx, response, files, pre, lastRun, runs >>

\* cleanup_orphaned_menus(): the final statistics, return True
CleanupStats ==
    /\ pc = "cleanup_stats"
    /\ \E ok \in BOOLEAN :
        /\ pc' = IF ok THEN "finally" ELSE "except"
        /\ result' = IF ok THEN "true" ELSE result
        /\ hist' = [hist EXCEPT !.raised = ~ok]
    /\ UNCHANGED << args, db_url, db, tx, conn, cursor, exitCode, tables, orphaned_menus,
                    idx, response, files, pre, lastRun, runs >>

(* --------------------------- specification ---------------------------- *)
Next ==
    \/ ParseArgs
    \/ Construct
    \/ Connect
    \/ Disconnect
    \/ MainExit
    \/ NextRun
    \/ MigrateResolve
    \/ MigrateDropStep
    \/ MigrateSchemaStep
    \/ ExceptHandler
    \/ ResetSelect
    \/ ResetDropTables
    \/ ResetDropTypes
    \/ ResetCommit
    \/ StatusBody
    \/ SeedRecord
    \/ SeedCommit
    \/ CleanupSelect
    \/ CleanupGate
    \/ CleanupDelete
    \/ CleanupVerify
    \/ CleanupStats

Spec == Init /\ [][Next]_vars

(* ------------------------------ properties ---------------------------- *)
\* the command has returned to main (or main never called it)
Ended == pc \in {"main_exit", "exited"}

IsCleanup == args.command = "cleanup-orphaned-menus"

\* the menus of d that have at least one restaurant_menus row
Assigned(d) == {m \in d.menus : \E r \in Restaurants : <<r, m>> \in d.rm}

\* "yes" in every mix of upper and lower case
AnyCaseYes == {<<a, b, c>> : a \in {"y", "Y"}, b \in {"e", "E"}, c \in {"s", "S"}}

SeedNames == {sample_users[k].username : k \in 1..Len(sample_users)}

UserRows(d, name) == {u \in d.users : u.username = name}

ProfileRows(d, user_id) == {k \in DOMAIN d.prof : d.prof[k].user_id = user_id}

\* the seed record k has one users row, and that row one profile row, in the
\* table of its role
OneProfile(d, k) ==
    /\ Cardinality(UserRows(d, sample_users[k].username)) = 1
    /\ \A u \in UserRows(d, sample_users[k].username) :
        /\ Cardinality(ProfileRows(d, u.id)) = 1
        /\ \A j \in ProfileRows(d, u.id) :
            d.prof[j].tbl = ProfileTable(sample_users[k].user_type)

\* every seed username that is present has exactly one profile row
ProfilesComplete(d) ==
    \A k \in 1..Len(sample_users) :
        UserRows(d, sample_users[k].username) # {} => OneProfile(d, k)

SeedSucceeded == args.command = "seed" /\ Ended /\ result = "true"

\* C1 as stated: every dispatched command, whatever its outcome, has called
\* disconnect() exactly once when it returns.
C1_DisconnectOncePerCommand ==
    (Ended /\ hist.dispatched) => hist.nDisconnect = 1

\* C1 amended: disconnect() is never called more than once, and a command
\* that has returned has called it exactly once when its connect() returned
\* True and not at all when connect() failed or was never reached (missing
\* schema file).
C1_DisconnectOnceIffConnected ==
    /\ hist.nDisconnect <= 1
    /\ ~hist.connected => hist.nDisconnect = 0
    /\ Ended => hist.nDisconnect = (IF hist.connected THEN 1 ELSE 0)

C1_Witness ==
    /\ pc = "exited"
    /\ hist.connected
    /\ hist.raised
    /\ result = "false"
    /\ hist.nDisconnect = 1

\* C2 as stated: a reset() that reports success leaves no table and no enum
\* type in the committed database, also when there was no table to begin
\* with.
C2_ResetLeavesNothing ==
    (args.command = "reset" /\ Ended /\ result = "true") =>
        db.tables = {} /\ db.types = {}

\* C3: once cleanup has committed its DELETE, the committed menus are exactly
\* the menus that had a restaurant_menus row before the call, the
\* restaurant_menus rows are as before, and no orphan is left.
C3_DeletesExactlyOrphans ==
    (IsCleanup /\ hist.nCommit > 0) =>
        /\ db.menus = Assigned(pre)
        /\ db.rm = pre.rm
        /\ \A m \in db.menus : \E r \in Restaurants : <<r, m>> \in db.rm

C3_Witness ==
    /\ pc = "exited"
    /\ IsCleanup
    /\ response = [kind |-> "line", text |-> Yes]
    /\ hist.nCommit = 1
    /\ result = "true"
    /\ db.menus # {}
    /\ db.menus # pre.menus

\* C4 as stated: a dry run that was called changes nothing, issues no
\* DELETE, commits nothing, and reports success.
C4_DryRunFrameAndSuccess ==
    (IsCleanup /\ ~args.execute /\ hist.dispatched /\ Ended) =>
        /\ db = pre
        /\ hist.nDelete = 0
        /\ hist.nCommit = 0
        /\ result = "true"

\* C4 amended: a dry run never changes the database, issues no DELETE and
\* commits nothing, at any point; it reports success exactly when the
\* connection was opened and the orphan query did not raise.
C4_DryRunFrame ==
    (IsCleanup /\ ~args.execute) =>
        /\ db = pre
        /\ hist.nDelete = 0
        /\ hist.nCommit = 0
        /\ Ended => (result = "true" <=> (hist.connected /\ ~hist.raised))

C4_Witness ==
    /\ pc = "exited"
    /\ IsCleanup
    /\ ~args.execute
    /\ result = "true"
    /\ Cardinality(orphaned_menus) = MaxMenus
    /\ db.menus = pre.menus

\* C5 as stated: any answer other than the literal "yes" cancels the
\* command, which then fails with the menus as they were.
C5_OnlyLiteralYes ==
    (IsCleanup /\ response.kind = "line" /\ response.text # Yes) =>
        /\ hist.cancelled
        /\ hist.nDelete = 0
        /\ db.menus = pre.menus

\* C5 amended: the answer is compared without regard to case.  An answer
\* that is "yes" in any mix of cases lets the deletion proceed; any other
\* answer cancels: the command returns failure, no DELETE is issued and the
\* menus are as they were.  No DELETE is ever issued without such an answer.
C5_OnlyYesIgnoringCase ==
    /\ (IsCleanup /\ response.kind = "line" /\ response.text \notin AnyCaseYes) =>
        /\ hist.cancelled
        /\ result = "false"
        /\ pc \in {"finally", "main_exit", "exited"}
        /\ hist.nDelete = 0
        /\ db.menus = pre.menus
    /\ (IsCleanup /\ response.kind = "line" /\ response.text \in AnyCaseYes) =>
        ~hist.cancelled
    /\ hist.nDelete > 0 =>
        response.kind = "line" /\ response.text \in AnyCaseYes

C5_Witness ==
    /\ pc = "exited"
    /\ IsCleanup
    /\ response = [kind |-> "line", text |-> <<"n", "o">>]
    /\ orphaned_menus # {}
    /\ result = "false"
    /\ exitCode = 1
    /\ db.menus = pre.menus

\* C6 as stated: after every successful seed() each of the four seed users
\* has one users row and exactly one profile row.
C6_SeedAlwaysComplete ==
    SeedSucceeded => \A k \in 1..Len(sample_users) : OneProfile(db, k)

\* C6 amended: a successful seed() that follows a successful seed() inserts
\* nothing; after every successful seed() each seed username has exactly one
\* users row; a username that was present before the run keeps its rows as
\* they were and a new one gets exactly one profile row; so the seed users
\* all have exactly one profile row whenever those present before the run
\* had (as on an empty database).
C6_SeedIdempotent ==
    SeedSucceeded =>
        /\ (lastRun.command = "seed" /\ lastRun.result = "true") =>
               db.users = pre.users /\ db.prof = pre.prof
        /\ \A k \in 1..Len(sample_users) :
               /\ Cardinality(UserRows(db, sample_users[k].username)) = 1
               /\ IF UserRows(pre, sample_users[k].username) # {}
                  THEN /\ UserRows(db, sample_users[k].username)
                             = UserRows(pre, sample_users[k].username)
                       /\ \A u \in UserRows(pre, sample_users[k].username) :
                             Cardinality(ProfileRows(db, u.id))
                                 = Cardinality(ProfileRows(pre, u.id))
                  ELSE OneProfile(db, k)
        /\ Cardinality({u \in db.users : u.username \in SeedNames})
               = Len(sample_users)
        /\ ProfilesComplete(pre) =>
               \A k \in 1..Len(sample_users) : OneProfile(db, k)

C6_Witness ==
    /\ pc = "exited"
    /\ SeedSucceeded
    /\ lastRun = [command |-> "seed", result |-> "true"]
    /\ Cardinality(db.users) = Len(sample_users)
    /\ Len(db.prof) = Len(sample_users)

\* C7: when migrate's drop step returned True and its schema step did not,
\* migrate does not report success, the one commit made is the drop step's,
\* and the committed database is what the drop_all.sql batch produced.
C7_DropStaysCommitted ==
    (args.command = "migrate" /\ hist.dropRet = "true"
        /\ hist.schemaRet \in {"false", "raise"}) =>
        /\ result = hist.schemaRet
        /\ hist.nCommit = 1
        /\ db = hist.afterDrop
        /\ pc = "exited" => exitCode = 1

C7_Witness ==
    /\ pc = "exited"
    /\ args.command = "migrate"
    /\ hist.dropRet = "true"
    /\ hist.schemaRet = "false"
    /\ pre.tables # {}
    /\ db.tables = {}

C9_SeedAllOrNothing ==
    args.command = "seed" =>
        /\ hist.nCommit <= 1
        /\ hist.nCommit = 1 => idx > Len(sample_users)
        /\ hist.nCommit = 0 => db = pre
        /\ (Ended /\ result # "true") => db = pre

C9_Witness ==
    /\ pc = "exited"
    /\ args.command = "seed"
    /\ result = "false"
    /\ hist.raised
    /\ idx = Len(sample_users)
    /\ pre.users = {}
    /\ db = pre

\* C10 as stated: a cleanup that returns failure has deleted no menu.
C10_FailureMeansNoDelete ==
    (IsCleanup /\ Ended /\ result = "false") => db.menus = pre.menus

====
